---- MODULE Spec2Model ----
(***************************************************************************)
(* Model of scripts/convert_dictabert_coreml.py: the DictaBERT -> Core ML  *)
(* conversion pipeline (main), the vocabulary export it performs, and the  *)
(* attention-bias derivation of MaskedLMWrapper.forward.                   *)
(*                                                                         *)
(* Three specifications share the variables:                               *)
(*   Spec         the whole pipeline, invoked up to MaxRuns times against  *)
(*                the same destination directory, every stage able to      *)
(*                raise;                                                   *)
(*   SpecExport   the vocabulary export applied to every token->id mapping *)
(*                within the bounds;                                       *)
(*   SpecForward  the bias derivation applied to every mask within the     *)
(*                bounds and to the two 128-long masks of the scenarios.   *)
(***************************************************************************)
EXTENDS Integers, Sequences, FiniteSets, TLC

\* ------------------------------------------------------------------ bounds
MaxRuns == 2
MaxVocab == 3
MaxId == 3
MaxMaskLen == 4

\* ------------------------------------------------------- program constants
MAX_SEQ_LEN == 128
BiasMantissa == 34028
BiasExponent == 34

VARIABLES
    pc,             \* the statement group main() executes next
    run,            \* number of the current invocation of the script
    stages,         \* statement groups completed by this invocation, in order
    failedAt,       \* statement group whose exception ended this invocation
    exitStatus,     \* "running", "success" (status 0) or "failure" (status 1)
    dirExists,      \* OUTPUT_DIR exists
    vocabFile,      \* OUTPUT_DIR/vocab.txt
    pkg,            \* OUTPUT_DIR/DictaBERT_INT8.mlpackage
    prevPkg,        \* pkg as it was when this invocation started (history)
    vocab,          \* tokenizer.get_vocab(), in dict order
    vocab_size,     \* width of the model's prediction head
    wrapper,        \* MaskedLMWrapper instance
    dummy,          \* the dummy inputs of the trace
    traced,         \* torch.jit.trace result
    mlmodel,        \* ct.convert result
    mlmodel_int8,   \* affine_quantize_weights result
    attention_mask, \* argument of the last forward call
    extended_mask   \* bias computed by the last forward call

vars == <<pc, run, stages, failedAt, exitStatus, dirExists, vocabFile, pkg,
          prevPkg, vocab, vocab_size, wrapper, dummy, traced, mlmodel,
          mlmodel_int8, attention_mask, extended_mask>>

fsVars == <<dirExists, vocabFile, pkg>>
memVars == <<vocab, vocab_size, wrapper, dummy, traced, mlmodel, mlmodel_int8,
             attention_mask, extended_mask>>

\* ------------------------------------------------------------ float32
\* A float is sign * m * 10^e, with the sign kept apart so that IEEE's two
\* zeros (0.0 and -0.0) are distinct values that compare equal.
Float(s, m, e) == [s |-> s, m |-> m, e |-> IF m = 0 THEN 0 ELSE e]

\* .to(torch.float32) of an integer element
ToFloat32(n) == IF n < 0 THEN Float(-1, -n, 0) ELSE Float(1, n, 0)

One == Float(1, 1, 0)

\* the literal -3.4028e+38
LargeNegative == Float(-1, BiasMantissa, BiasExponent)

\* a - b for two floats of exponent 0 (integers held in floats); x - x is +0.0
FSub(a, b) ==
    LET d == a.s * a.m - b.s * b.m
    IN  IF d < 0 THEN Float(-1, -d, 0) ELSE Float(1, d, 0)

\* a * b: signs multiply (so 0.0 * negative is -0.0), magnitudes multiply
FMul(a, b) == Float(a.s * b.s, a.m * b.m, a.e + b.e)

\* IEEE equality: -0.0 = 0.0
FEq(a, b) == (a.m = 0 /\ b.m = 0) \/ a = b

RECURSIVE Pow10(_)
Pow10(k) == IF k = 0 THEN 1 ELSE 10 * Pow10(k - 1)

\* a <= -(10^k), for a mantissa below 10^10
FLeqNegPow10(a, k) ==
    /\ a.s = -1
    /\ a.m > 0
    /\ IF a.e >= k THEN TRUE
       ELSE IF k - a.e > 9 THEN FALSE
       ELSE a.m >= Pow10(k - a.e)

\* ------------------------------------------------------------ tensors
\* A tensor is its shape, its element type and its elements in row-major order.
Tensor(shape, dtype, data) == [shape |-> shape, dtype |-> dtype, data |-> data]

NoTensor == Tensor(<<>>, "none", <<>>)

\* t.unsqueeze(dim): a dimension of size 1 inserted at position dim (0-based)
Unsqueeze(t, dim) ==
    Tensor(SubSeq(t.shape, 1, dim) \o <<1>> \o SubSeq(t.shape, dim + 1, Len(t.shape)),
           t.dtype, t.data)

\* t.to(torch.float32)
ToFloatTensor(t) ==
    Tensor(t.shape, "float32", [i \in 1..Len(t.data) |-> ToFloat32(t.data[i])])

\* (1.0 - t) * c, elementwise
OneMinusTimes(t, c) ==
    Tensor(t.shape, t.dtype, [i \in 1..Len(t.data) |-> FMul(FSub(One, t.data[i]), c)])

\* forward, lines 48-49, with the first statement lost to a single unsqueeze
ExtendedMaskOneUnsqueeze(mask) ==
    OneMinusTimes(ToFloatTensor(Unsqueeze(mask, 1)), LargeNegative)

\* MaskedLMWrapper.forward, lines 48-49: the 4D additive attention bias
ExtendedMask(mask) ==
    OneMinusTimes(ToFloatTensor(Unsqueeze(Unsqueeze(mask, 1), 2)), LargeNegative)

\* torch.ones(1, n, dtype=torch.long)
Ones(n) == Tensor(<<1, n>>, "int64", [i \in 1..n |-> 1])

\* an attention mask [1, n] given by its elements
MaskTensor(data) == Tensor(<<1, Len(data)>>, "int64", data)

\* ---------------------------------------------------- vocabulary export
\* A token is a string, held as its characters; none holds a line break.
Tokens == {<<"a">>, <<"b">>, <<"#", "a">>}

Newline == "\n"

\* get_vocab() returns a dict: its items are (token, id) pairs in dict order,
\* no token twice; nothing makes the ids distinct or gap-free.
IsDict(items) ==
    \A i, j \in 1..Len(items) : i # j => items[i][1] # items[j][1]

Vocabs ==
    {v \in UNION {[1..n -> Tokens \X (0..MaxId)] : n \in 0..MaxVocab} : IsDict(v)}

\* insertion of kv into a list sorted by id, after every item whose id is not
\* larger: the order sorted() gives items of equal key (it is stable)
RECURSIVE InsertByValue(_, _)
InsertByValue(kv, sorted) ==
    IF sorted = <<>> THEN <<kv>>
    ELSE IF Head(sorted)[2] <= kv[2]
         THEN <<Head(sorted)>> \o InsertByValue(kv, Tail(sorted))
         ELSE <<kv>> \o sorted

RECURSIVE SortedByValueFrom(_, _)
SortedByValueFrom(items, acc) ==
    IF items = <<>> THEN acc
    ELSE SortedByValueFrom(Tail(items), InsertByValue(Head(items), acc))

\* the items left in dict order (the sort forgotten)
Unsorted(items) == items

\* sorted(vocab.items(), key=lambda kv: kv[1])
Ordered(items) == SortedByValueFrom(items, <<>>)

\* the characters the loop writes: token + "\n" for each item, in order
RECURSIVE Written(_)
Written(ordered) ==
    IF ordered = <<>> THEN <<>>
    ELSE Head(ordered)[1] \o <<Newline>> \o Written(Tail(ordered))

\* A file is absent, or holds a text (a sequence of characters).
NoFile == [exists |-> FALSE, text |-> <<>>]
File(text) == [exists |-> TRUE, text |-> text]

\* The lines of a text, as a reader of vocab.txt splits it: each line ends at
\* its line break; characters after the last line break are a last line.
RECURSIVE LinesFrom(_, _, _)
LinesFrom(text, cur, acc) ==
    IF text = <<>> THEN (IF cur = <<>> THEN acc ELSE Append(acc, cur))
    ELSE IF Head(text) = Newline
         THEN LinesFrom(Tail(text), <<>>, Append(acc, cur))
         ELSE LinesFrom(Tail(text), Append(cur, Head(text)), acc)

Lines(text) == LinesFrom(text, <<>>, <<>>)

\* the prefixes of a text: what the file holds when the group raises after
\* open, in the loop (a part of the text) or in the print after it (all of it)
Prefixes(text) == {SubSeq(text, 1, n) : n \in 0..Len(text)}

\* ------------------------------------------------------------ pipeline
\* the statement groups of main(), in program order
StageOrder ==
    <<"load", "mkdir", "vocab", "wrap", "trace", "convert", "quantize",
      "remove", "save", "report">>

\* the group that follows stage in order; "done" after the last
NextIn(order, stage) ==
    LET i == CHOOSE k \in 1..Len(order) : order[k] = stage
    IN  IF i = Len(order) THEN "done" ELSE order[i + 1]

\* the vocabulary written before the directory is made
VocabFirstOrder ==
    <<"load", "vocab", "mkdir", "wrap", "trace", "convert", "quantize",
      "remove", "save", "report">>

AfterVocabFirst(stage) == NextIn(VocabFirstOrder, stage)

\* where control goes when a statement group completes
After(stage) == NextIn(StageOrder, stage)

\* the tokenizer->id mappings the pipeline is run on: a gap-free one, the
\* same tokens renumbered, and one whose ids leave a gap
PipeVocabs ==
    { << <<(<<"a">>), 0>>, <<(<<"b">>), 1>> >>,
      << <<(<<"a">>), 1>>, <<(<<"b">>), 0>> >>,
      << <<(<<"a">>), 0>>, <<(<<"b">>), 2>> >> }

\* A model package is a directory: absent, or a map from the files in it to
\* the invocation that wrote each (0: something before the first invocation).
FileNames == {"Manifest.json", "weight.bin"}
NoFiles == [f \in {} |-> 0]
NoPkg == [exists |-> FALSE, files |-> NoFiles]
Pkg(files) == [exists |-> TRUE, files |-> files]
FilesOf(names, r) == [f \in names |-> r]
Restrict(files, names) == [f \in names |-> files[f]]
Overlay(old, new) ==
    [f \in (DOMAIN old) \cup (DOMAIN new) |->
        IF f \in DOMAIN new THEN new[f] ELSE old[f]]

\* in-memory objects not yet made
NoWrapper == [built |-> FALSE, position_ids |-> NoTensor]
NoDummy == <<>>
NoTraced == [made |-> FALSE, inputs |-> <<>>, out_shape |-> <<>>, out_dtype |-> "none"]
NoMlmodel == [made |-> FALSE, inputs |-> <<>>, outputs |-> <<>>, target |-> "none",
              weights |-> "none"]
NoInt8 == [made |-> FALSE, inputs |-> <<>>, outputs |-> <<>>, target |-> "none",
           weights |-> "none", files |-> {}]

\* a declared tensor: ct.TensorType(name=, shape=, dtype=), or a dummy's shape
TensorType(name, shape, dtype) == [name |-> name, shape |-> shape, dtype |-> dtype]

\* torch.arange(n)
Arange(n) == Tensor(<<n>>, "int64", [i \in 1..n |-> i - 1])

\* MaskedLMWrapper.__init__: the position_ids buffer
MakeWrapper(max_seq_len) ==
    [built |-> TRUE, position_ids |-> Unsqueeze(Arange(max_seq_len), 0)]

\* the three dummy inputs of the trace
DummyInputs ==
    << TensorType("dummy_ids", <<1, MAX_SEQ_LEN>>, "int64"),
       TensorType("dummy_mask", <<1, MAX_SEQ_LEN>>, "int64"),
       TensorType("dummy_type_ids", <<1, MAX_SEQ_LEN>>, "int64") >>

\* shape of forward's result: embeddings [1, L, H], encoder [1, L, H], head [1, L, V]
ForwardShape(ids_shape, v) == <<ids_shape[1], ids_shape[2], v>>

\* the embeddings add the position embeddings of the buffer to those of the
\* ids: the two lengths must agree (or the buffer's broadcast from 1)
CanForward(w, ids_shape) ==
    /\ w.built
    /\ Len(ids_shape) = 2
    /\ w.position_ids.shape[2] \in {1, ids_shape[2]}

\* the inputs= list with the element type of the dummies left on one input
DeclaredInputsLong ==
    << TensorType("input_ids", <<1, MAX_SEQ_LEN>>, "int32"),
       TensorType("attention_mask", <<1, MAX_SEQ_LEN>>, "int64"),
       TensorType("token_type_ids", <<1, MAX_SEQ_LEN>>, "int32") >>

\* the inputs= list of ct.convert
DeclaredInputs ==
    << TensorType("input_ids", <<1, MAX_SEQ_LEN>>, "int32"),
       TensorType("attention_mask", <<1, MAX_SEQ_LEN>>, "int32"),
       TensorType("token_type_ids", <<1, MAX_SEQ_LEN>>, "int32") >>

\* --------------------------------------------------------- control flow
\* a statement group ran to its end: control moves on; the last one ends
\* main(), and the process exits with status 0
Complete(stage) ==
    /\ pc' = After(stage)
    /\ stages' = Append(stages, stage)
    /\ exitStatus' = IF After(stage) = "done" THEN "success" ELSE exitStatus
    /\ UNCHANGED <<run, failedAt, prevPkg>>

\* the exception caught and the pipeline carried on with the next group
RaiseSkipped(stage) ==
    /\ pc' = After(stage)
    /\ failedAt' = stage
    /\ exitStatus' = IF After(stage) = "done" THEN "success" ELSE exitStatus
    /\ UNCHANGED <<run, stages, prevPkg>>

\* a statement group raised: main() has no handler and neither has its
\* caller, so the exception ends the process with status 1
Raise(stage) ==
    /\ pc' = "failed"
    /\ failedAt' = stage
    /\ exitStatus' = "failure"
    /\ UNCHANGED <<run, stages, prevPkg>>

\* ---------------------------------------------------------------- load
Load ==
    /\ pc = "load"
    /\ \E v \in PipeVocabs : \E n \in Len(v)..(Len(v) + 1) :
          /\ vocab' = v
          /\ vocab_size' = n
    /\ Complete("load")
    /\ UNCHANGED <<fsVars, wrapper, dummy, traced, mlmodel, mlmodel_int8,
                   attention_mask, extended_mask>>

LoadFail ==
    /\ pc = "load"
    /\ Raise("load")
    /\ UNCHANGED <<fsVars, memVars>>

\* ----------------------------------------------------- export vocabulary
\* the directory emptied before it is made again
MkdirFresh ==
    /\ pc = "mkdir"
    /\ dirExists' = TRUE
    /\ vocabFile' = NoFile
    /\ pkg' = NoPkg
    /\ Complete("mkdir")
    /\ UNCHANGED memVars

\* OUTPUT_DIR.mkdir(parents=True, exist_ok=True)
Mkdir ==
    /\ pc = "mkdir"
    /\ dirExists' = TRUE
    /\ Complete("mkdir")
    /\ UNCHANGED <<vocabFile, pkg, memVars>>

MkdirFail ==
    /\ pc = "mkdir"
    /\ ~dirExists
    /\ Raise("mkdir")
    /\ UNCHANGED <<fsVars, memVars>>

\* the ids of a mapping of N items are exactly 0..N-1
Contiguous(items) ==
    {items[i][2] : i \in 1..Len(items)} = 0..(Len(items) - 1)

\* the export refusing a mapping whose ids are not exactly 0..N-1
WriteVocabChecked ==
    /\ pc = "vocab"
    /\ dirExists
    /\ Contiguous(vocab)
    /\ vocabFile' = File(Written(Ordered(vocab)))
    /\ Complete("vocab")
    /\ UNCHANGED <<dirExists, pkg, memVars>>

\* get_vocab, sorted, open(.., "w") and the write loop
WriteVocab ==
    /\ pc = "vocab"
    /\ dirExists
    /\ vocabFile' = File(Written(Ordered(vocab)))
    /\ Complete("vocab")
    /\ UNCHANGED <<dirExists, pkg, memVars>>

\* open raised (the file is as it was), or a later statement of the group
\* raised after open had truncated the file (the file holds what was written)
WriteVocabFail ==
    /\ pc = "vocab"
    /\ \/ vocabFile' = vocabFile
       \/ /\ dirExists
          /\ \E t \in Prefixes(Written(Ordered(vocab))) : vocabFile' = File(t)
    /\ Raise("vocab")
    /\ UNCHANGED <<dirExists, pkg, memVars>>

\* --------------------------------------------------------------- trace
\* MaskedLMWrapper(model, MAX_SEQ_LEN) and the three dummy inputs
BuildWrapper ==
    /\ pc = "wrap"
    /\ wrapper' = MakeWrapper(MAX_SEQ_LEN)
    /\ dummy' = DummyInputs
    /\ Complete("wrap")
    /\ UNCHANGED <<fsVars, vocab, vocab_size, traced, mlmodel, mlmodel_int8,
                   attention_mask, extended_mask>>

BuildWrapperFail ==
    /\ pc = "wrap"
    /\ Raise("wrap")
    /\ UNCHANGED <<fsVars, memVars>>

\* the trace raised and the handler deleted the vocabulary file
TraceFailRollback ==
    /\ pc = "trace"
    /\ Raise("trace")
    /\ vocabFile' = NoFile
    /\ UNCHANGED <<dirExists, pkg, memVars>>

\* torch.jit.trace: forward runs once on the dummies (the mask all ones)
Trace ==
    /\ pc = "trace"
    /\ CanForward(wrapper, dummy[1].shape)
    /\ attention_mask' = Ones(dummy[2].shape[2])
    /\ extended_mask' = ExtendedMask(attention_mask')
    /\ traced' = [made |-> TRUE, inputs |-> dummy,
                  out_shape |-> ForwardShape(dummy[1].shape, vocab_size),
                  out_dtype |-> "float32"]
    /\ Complete("trace")
    /\ UNCHANGED <<fsVars, vocab, vocab_size, wrapper, dummy, mlmodel, mlmodel_int8>>

TraceFail ==
    /\ pc = "trace"
    /\ Raise("trace")
    /\ UNCHANGED <<fsVars, memVars>>

\* ------------------------------------------------------------- convert
\* ct.convert: the inputs as declared; the output is declared by name only,
\* its shape and element type are those of the graph on the declared inputs
Convert ==
    /\ pc = "convert"
    /\ traced.made
    /\ mlmodel' = [made |-> TRUE,
                   inputs |-> DeclaredInputs,
                   outputs |-> << TensorType("logits",
                                     ForwardShape(DeclaredInputs[1].shape, traced.out_shape[3]),
                                     traced.out_dtype) >>,
                   target |-> "macOS14",
                   weights |-> "float32"]
    /\ Complete("convert")
    /\ UNCHANGED <<fsVars, vocab, vocab_size, wrapper, dummy, traced, mlmodel_int8,
                   attention_mask, extended_mask>>

ConvertFail ==
    /\ pc = "convert"
    /\ Raise("convert")
    /\ UNCHANGED <<fsVars, memVars>>

\* ------------------------------------------------------------ quantize
\* affine_quantize_weights(mlmodel, mode="linear", dtype=np.int8): a new model,
\* the interface kept; the files of its package are the library's choice
Quantize ==
    /\ pc = "quantize"
    /\ mlmodel.made
    /\ \E names \in (SUBSET FileNames) \ {{}} :
          mlmodel_int8' = [made |-> TRUE, inputs |-> mlmodel.inputs,
                           outputs |-> mlmodel.outputs, target |-> mlmodel.target,
                           weights |-> "int8", files |-> names]
    /\ Complete("quantize")
    /\ UNCHANGED <<fsVars, vocab, vocab_size, wrapper, dummy, traced, mlmodel,
                   attention_mask, extended_mask>>

QuantizeFail ==
    /\ pc = "quantize"
    /\ Raise("quantize")
    /\ UNCHANGED <<fsVars, memVars>>

\* ---------------------------------------------------------------- save
\* the existing package left in place
RemoveSkipped ==
    /\ pc = "remove"
    /\ Complete("remove")
    /\ UNCHANGED <<fsVars, memVars>>

\* if mlpackage_path.exists(): shutil.rmtree(mlpackage_path)
RemoveExisting ==
    /\ pc = "remove"
    /\ pkg' = IF pkg.exists THEN NoPkg ELSE pkg
    /\ Complete("remove")
    /\ UNCHANGED <<dirExists, vocabFile, memVars>>

\* rmtree raised part-way: some of the files are gone, the directory is not
RemoveFail ==
    /\ pc = "remove"
    /\ pkg.exists
    /\ \E kept \in SUBSET (DOMAIN pkg.files) : pkg' = Pkg(Restrict(pkg.files, kept))
    /\ Raise("remove")
    /\ UNCHANGED <<dirExists, vocabFile, memVars>>

\* mlmodel_int8.save(path): the files of the package written under path
Save ==
    /\ pc = "save"
    /\ dirExists
    /\ mlmodel_int8.made
    /\ pkg' = Pkg(Overlay(pkg.files, FilesOf(mlmodel_int8.files, run)))
    /\ Complete("save")
    /\ UNCHANGED <<dirExists, vocabFile, memVars>>

\* the save raised and the package of before the invocation was put back
SaveFailRestores ==
    /\ pc = "save"
    /\ pkg' = prevPkg
    /\ Raise("save")
    /\ UNCHANGED <<dirExists, vocabFile, memVars>>

\* the save raised: nothing was written yet, or the directory was made and
\* some but not all of the files were written
SaveFail ==
    /\ pc = "save"
    /\ \/ pkg' = pkg
       \/ /\ dirExists
          /\ \E names \in (SUBSET mlmodel_int8.files) \ {mlmodel_int8.files} :
                pkg' = Pkg(Overlay(pkg.files, FilesOf(names, run)))
    /\ Raise("save")
    /\ UNCHANGED <<dirExists, vocabFile, memVars>>

\* the size of the saved package summed and the two closing messages printed
Report ==
    /\ pc = "report"
    /\ pkg.exists
    /\ Complete("report")
    /\ UNCHANGED <<fsVars, memVars>>

ReportFail ==
    /\ pc = "report"
    /\ Raise("report")
    /\ UNCHANGED <<fsVars, memVars>>

\* ------------------------------------------------------------- process
\* what a fresh process holds in memory
FreshMemory ==
    /\ vocab = <<>>
    /\ vocab_size = 0
    /\ wrapper = NoWrapper
    /\ dummy = NoDummy
    /\ traced = NoTraced
    /\ mlmodel = NoMlmodel
    /\ mlmodel_int8 = NoInt8
    /\ attention_mask = NoTensor
    /\ extended_mask = NoTensor

\* the script is invoked again, after the process of before has exited
StartRun ==
    /\ pc \in {"done", "failed"}
    /\ run < MaxRuns
    /\ run' = run + 1
    /\ pc' = "load"
    /\ stages' = <<>>
    /\ failedAt' = "none"
    /\ exitStatus' = "running"
    /\ prevPkg' = pkg
    /\ vocab' = <<>>
    /\ vocab_size' = 0
    /\ wrapper' = NoWrapper
    /\ dummy' = NoDummy
    /\ traced' = NoTraced
    /\ mlmodel' = NoMlmodel
    /\ mlmodel_int8' = NoInt8
    /\ attention_mask' = NoTensor
    /\ extended_mask' = NoTensor
    /\ UNCHANGED fsVars

\* a vocab.txt of before the first invocation
StaleText == <<"#", "a", Newline>>

\* the first invocation: the destination is absent, or holds whatever an
\* earlier tool left in it
Init ==
    /\ pc = "load"
    /\ run = 1
    /\ stages = <<>>
    /\ failedAt = "none"
    /\ exitStatus = "running"
    /\ dirExists \in BOOLEAN
    /\ vocabFile \in (IF dirExists THEN {NoFile, File(StaleText)} ELSE {NoFile})
    /\ pkg \in (IF dirExists
                 THEN {NoPkg} \cup {Pkg(FilesOf(names, 0)) : names \in SUBSET FileNames}
                 ELSE {NoPkg})
    /\ prevPkg = pkg
    /\ FreshMemory

Next ==
    \/ Load \/ LoadFail
    \/ Mkdir \/ MkdirFail
    \/ WriteVocab \/ WriteVocabFail
    \/ BuildWrapper \/ BuildWrapperFail
    \/ Trace \/ TraceFail
    \/ Convert \/ ConvertFail
    \/ Quantize \/ QuantizeFail
    \/ RemoveExisting \/ RemoveFail
    \/ Save \/ SaveFail
    \/ Report \/ ReportFail
    \/ StartRun

Spec == Init /\ [][Next]_vars

\* ------------------------------------------- the export on every mapping
\* main() about to export, the tokenizer's mapping any mapping in the bounds
InitExport ==
    /\ pc = "vocab"
    /\ run = 1
    /\ stages = <<"load", "mkdir">>
    /\ failedAt = "none"
    /\ exitStatus = "running"
    /\ dirExists = TRUE
    /\ vocabFile \in {NoFile, File(StaleText)}
    /\ pkg = NoPkg
    /\ prevPkg = NoPkg
    /\ vocab \in Vocabs
    /\ vocab_size = Len(vocab)
    /\ wrapper = NoWrapper
    /\ dummy = NoDummy
    /\ traced = NoTraced
    /\ mlmodel = NoMlmodel
    /\ mlmodel_int8 = NoInt8
    /\ attention_mask = NoTensor
    /\ extended_mask = NoTensor

NextExport == WriteVocab \/ WriteVocabFail

SpecExport == InitExport /\ [][NextExport]_vars

\* -------------------------------------------- forward on every mask
\* the mask of the third scenario: n positions, the last k of them 0
LastMasked(n, k) ==
    Tensor(<<1, n>>, "int64", [i \in 1..n |-> IF i > n - k THEN 0 ELSE 1])

\* the masks forward is called on: every mask of up to MaxMaskLen positions
\* with entries 0, 1 or (outside the contract) 2, and the scenarios' two
Masks ==
    {MaskTensor(d) : d \in UNION {[1..n -> 0..2] : n \in 1..MaxMaskLen}}
        \cup {Ones(MAX_SEQ_LEN), LastMasked(MAX_SEQ_LEN, 10)}

\* a wrapper built and about to be called
InitForward ==
    /\ pc = "trace"
    /\ run = 1
    /\ stages = <<"load", "mkdir", "vocab", "wrap">>
    /\ failedAt = "none"
    /\ exitStatus = "running"
    /\ dirExists = TRUE
    /\ vocabFile = File(<<>>)
    /\ pkg = NoPkg
    /\ prevPkg = NoPkg
    /\ vocab = <<>>
    /\ vocab_size = 0
    /\ wrapper = MakeWrapper(MAX_SEQ_LEN)
    /\ dummy = DummyInputs
    /\ traced = NoTraced
    /\ mlmodel = NoMlmodel
    /\ mlmodel_int8 = NoInt8
    /\ attention_mask \in Masks
    /\ extended_mask = NoTensor

\* forward(input_ids, attention_mask, token_type_ids), up to the bias
Forward ==
    /\ extended_mask = NoTensor
    /\ extended_mask' = ExtendedMask(attention_mask)
    /\ UNCHANGED <<pc, run, stages, failedAt, exitStatus, fsVars, prevPkg, vocab,
                   vocab_size, wrapper, dummy, traced, mlmodel, mlmodel_int8,
                   attention_mask>>

NextForward == Forward

SpecForward == InitForward /\ [][NextForward]_vars

\* ================================================================ claims
ExportDone == \E i \in 1..Len(stages) : stages[i] = "vocab"

FileLines == Lines(vocabFile.text)

HasItem(items, token, id) == \E k \in 1..Len(items) : items[k] = <<token, id>>

\* C1: when the ids of the N-token mapping are exactly 0..N-1, the vocab.txt
\* the export wrote has N lines and its line i (0-based) is the token of id i.
VocabLinesFollowIds ==
    (ExportDone /\ Contiguous(vocab)) =>
        /\ vocabFile.exists
        /\ Len(FileLines) = Len(vocab)
        /\ \A i \in 0..(Len(vocab) - 1) : HasItem(vocab, FileLines[i + 1], i)

\* C1's case: three tokens, ids 0..2, the dict not in id order, exported
VocabLinesFollowIdsWitness ==
    /\ ExportDone
    /\ Contiguous(vocab)
    /\ Len(vocab) = 3
    /\ vocab[1][2] = 2
    /\ vocab[2][2] = 0

Zero == ToFloat32(0)

MaskIsBinary == \A j \in 1..Len(attention_mask.data) : attention_mask.data[j] \in {0, 1}

ForwardDone == extended_mask # NoTensor

\* C2: for a mask [1, L] of 0s and 1s the bias forward computes has shape
\* [1, 1, 1, L], is 0.0 where the mask is 1 and at most -1e38 where it is 0;
\* the all-ones mask of 128 gives an all-zero bias, and the mask of 128 whose
\* last 10 positions are 0 gives 118 zeros followed by 10 values <= -1e38.
BiasFollowsMask ==
    (ForwardDone /\ MaskIsBinary) =>
        LET L == attention_mask.shape[2]
            bias == extended_mask.data
        IN  /\ attention_mask.shape = <<1, L>>
            /\ extended_mask.shape = <<1, 1, 1, L>>
            /\ Len(bias) = L
            /\ \A j \in 1..L :
                  /\ attention_mask.data[j] = 1 => FEq(bias[j], Zero)
                  /\ attention_mask.data[j] = 0 => FLeqNegPow10(bias[j], 38)
            /\ attention_mask = Ones(MAX_SEQ_LEN) =>
                  \A j \in 1..MAX_SEQ_LEN : FEq(bias[j], Zero)
            /\ attention_mask = LastMasked(MAX_SEQ_LEN, 10) =>
                  /\ \A j \in 1..(MAX_SEQ_LEN - 10) : FEq(bias[j], Zero)
                  /\ \A j \in (MAX_SEQ_LEN - 9)..MAX_SEQ_LEN : FLeqNegPow10(bias[j], 38)

\* C2's case: forward has run on the 128-long mask whose last 10 are 0
BiasFollowsMaskWitness ==
    /\ ForwardDone
    /\ attention_mask = LastMasked(MAX_SEQ_LEN, 10)
    /\ Len(extended_mask.data) = MAX_SEQ_LEN

\* the package this invocation's save writes
NewPkg == Pkg(FilesOf(mlmodel_int8.files, run))

\* C3: when an invocation has succeeded, the package at the destination is
\* exactly the one this invocation wrote: no file of an earlier one is left.
OnlyLatestPackage ==
    pc = "done" => pkg = NewPkg

\* C3's case: a second invocation succeeded over the package the first one
\* wrote, which held a file the new package does not hold
OnlyLatestPackageWitness ==
    /\ pc = "done"
    /\ run = 2
    /\ prevPkg.exists
    /\ \A f \in DOMAIN prevPkg.files : prevPkg.files[f] = 1
    /\ \E f \in DOMAIN prevPkg.files : f \notin mlmodel_int8.files

\* the order of the statement groups as the specification gives it
ClaimedOrder ==
    <<"load", "mkdir", "vocab", "wrap", "trace", "convert", "quantize",
      "remove", "save">>

IsPrefix(a, b) == Len(a) <= Len(b) /\ a = SubSeq(b, 1, Len(a))

\* the groups of ClaimedOrder before stage
Before(stage) ==
    LET order == ClaimedOrder \o <<"report">>
        i == CHOOSE k \in 1..Len(order) : order[k] = stage
    IN  SubSeq(order, 1, i - 1)

\* C4: a step in which a statement group raises ends the process failed, with
\* a non-zero status, the groups run being exactly those before it (none
\* later, the failing one not run again); a failed process takes no step
\* but its replacement by a new invocation, and changes no file.
FailFast ==
    [][ /\ failedAt' # "none" =>
            /\ pc' = "failed"
            /\ exitStatus' = "failure"
            /\ stages' = Before(failedAt')
        /\ pc = "failed" =>
            /\ run' = run + 1
            /\ pc' = "load"
            /\ fsVars' = fsVars
        /\ exitStatus' = "success" => (failedAt' = "none" /\ pc' = "done") ]_vars

\* C4's case: the conversion raised
FailFastWitness ==
    /\ pc = "failed"
    /\ failedAt = "convert"
    /\ exitStatus = "failure"
    /\ stages = <<"load", "mkdir", "vocab", "wrap", "trace">>

\* C5: when a group after the vocabulary export raises, vocab.txt stays as the
\* export wrote it; a group that writes nothing leaves every file as it was
\* when it raises, and nothing changes once the process has failed.
NoRollback ==
    [][ /\ (pc' = "failed" /\ pc \in {"wrap", "trace", "convert", "quantize", "remove", "save", "report"}) =>
            /\ vocabFile' = vocabFile
            /\ vocabFile'.exists
            /\ Len(Lines(vocabFile'.text)) = Len(vocab)
        /\ (pc' = "failed" /\ pc \in {"load", "wrap", "trace", "convert", "quantize", "report"}) =>
            fsVars' = fsVars
        /\ pc = "failed" => fsVars' = fsVars ]_vars

\* C5's case: the save raised over a destination that held no vocab.txt
\* before, and the vocab.txt this invocation wrote is there
NoRollbackWitness ==
    /\ pc = "failed"
    /\ failedAt = "save"
    /\ run = 1
    /\ vocabFile = File(Written(Ordered(vocab)))
    /\ vocabFile.text # StaleText
    /\ pkg # NewPkg

\* C6: the converted model declares input_ids, attention_mask and
\* token_type_ids, each [1, L] int32 with L = MAX_SEQ_LEN, the length of the
\* wrapper's position indices and of the dummies, and one output, logits,
\* [1, L, V] float.
InterfaceMatches ==
    mlmodel.made =>
        LET L == MAX_SEQ_LEN
        IN  /\ Len(mlmodel.inputs) = 3
            /\ mlmodel.inputs[1].name = "input_ids"
            /\ mlmodel.inputs[2].name = "attention_mask"
            /\ mlmodel.inputs[3].name = "token_type_ids"
            /\ \A i \in 1..3 :
                  /\ mlmodel.inputs[i].shape = <<1, L>>
                  /\ mlmodel.inputs[i].dtype = "int32"
                  /\ mlmodel.inputs[i].shape = dummy[i].shape
            /\ wrapper.position_ids.shape = <<1, L>>
            /\ Len(wrapper.position_ids.data) = L
            /\ mlmodel.outputs =
                  << TensorType("logits", <<1, L, vocab_size>>, "float32") >>

\* C6's case: the conversion has been made, for a head three tokens wide
InterfaceMatchesWitness ==
    /\ mlmodel.made
    /\ pc = "quantize"
    /\ vocab_size = 3

\* C7: the groups run in the one order load, mkdir, vocab, wrap, trace,
\* convert, quantize, remove, save; the directory exists when the vocabulary
\* file is opened; the save is reached only with the trace, the conversion
\* and the quantization made.
StagesInOrder ==
    /\ IsPrefix(stages, ClaimedOrder \o <<"report">>)
    /\ pc \notin {"done", "failed"} => pc = (ClaimedOrder \o <<"report">>)[Len(stages) + 1]
    /\ pc = "failed" => failedAt = (ClaimedOrder \o <<"report">>)[Len(stages) + 1]
    /\ pc = "done" => stages = ClaimedOrder \o <<"report">>
    /\ pc = "vocab" => dirExists
    /\ ExportDone => dirExists
    /\ pc = "save" => (traced.made /\ mlmodel.made /\ mlmodel_int8.made)

\* C7's case: an invocation ran to its end
StagesInOrderWitness ==
    /\ pc = "done"
    /\ SubSeq(stages, 1, 9) = ClaimedOrder
    /\ pkg.exists

\* C8: when the save is reached the package of before is gone and no new one
\* is there; a save that raises leaves no complete new package and no file of
\* the old one, and nothing puts the old one back.
RemoveThenWriteNotAtomic ==
    [][ /\ pc' = "save" => ~pkg'.exists
        /\ (pc = "save" /\ pc' = "failed") =>
            /\ pkg' # NewPkg
            /\ \A f \in DOMAIN pkg'.files : pkg'.files[f] = run
        /\ (pc = "failed" /\ failedAt = "save") => pkg' = pkg ]_vars

\* C8's case: there was a package, the save raised, and what is there now is
\* neither that package nor a complete new one
RemoveThenWriteNotAtomicWitness ==
    /\ pc = "failed"
    /\ failedAt = "save"
    /\ prevPkg.exists
    /\ DOMAIN prevPkg.files = FileNames
    /\ pkg # prevPkg
    /\ pkg # NewPkg

PreSave == {"load", "mkdir", "vocab", "wrap", "trace", "convert", "quantize"}

\* C9: no group before the removal changes the package at the destination,
\* whether it completes or raises; after a failure in one of them the package
\* is the one the invocation found.
PackageUntouchedBeforeSave ==
    [][ /\ pc \in PreSave => pkg' = pkg
        /\ failedAt' \in PreSave => pkg' = prevPkg' ]_vars

\* C9's case: the second invocation wrote its vocab.txt and then failed in
\* the trace, next to the complete package of the first invocation
PackageUntouchedBeforeSaveWitness ==
    /\ run = 2
    /\ pc = "failed"
    /\ failedAt = "trace"
    /\ vocabFile = File(Written(Ordered(vocab)))
    /\ pkg.exists
    /\ DOMAIN pkg.files = FileNames
    /\ \A f \in DOMAIN pkg.files : pkg.files[f] = 1

\* C10: the export is never refused for what the mapping holds, and it writes
\* one line per item, the items in ascending order of id.
ExportDoesNotValidate ==
    /\ pc = "vocab" => ENABLED WriteVocab
    /\ ExportDone =>
          /\ vocabFile.exists
          /\ Len(FileLines) = Len(vocab)
          /\ \E p \in Permutations(1..Len(vocab)) :
                \A i \in 1..Len(vocab) :
                    /\ FileLines[i] = vocab[p[i]][1]
                    /\ i < Len(vocab) => vocab[p[i]][2] <= vocab[p[i + 1]][2]

\* C10's case: ids 0 and 2 and no id 1: the export went through, and line 1
\* is not the token of id 1
ExportDoesNotValidateWitness ==
    /\ ExportDone
    /\ pc = "wrap"
    /\ Len(vocab) = 2
    /\ ~Contiguous(vocab)
    /\ {vocab[1][2], vocab[2][2]} = {0, 2}
    /\ \E i \in 0..(Len(vocab) - 1) : ~HasItem(vocab, FileLines[i + 1], i)

====
